---------------------------- MODULE Spec2Model ----------------------------
(***************************************************************************)
(* A model of the AI Image Idea Studio: the React component App (App.tsx)  *)
(* and the Gemini service functions it calls (validateApiKey, analyzeIdea, *)
(* generateImage, handleApiError, getMimeTypeAndData).                     *)
(*                                                                         *)
(* JavaScript strings are sequences of one-character strings, so that      *)
(* split, includes, startsWith, trim and toLowerCase are computed and not  *)
(* assumed.  The values null and undefined are the two sentinels Null and  *)
(* Undefined, which no string equals.                                      *)
(***************************************************************************)
EXTENDS Integers, Sequences, FiniteSets, TLC

VARIABLES
    \* ---- React state of App (App.tsx 49-63) and browser local storage
    apiKey, isKeyValid, isKeyLoading,
    rawImage, styleImage, userPrompt, editSuggestion,
    generatedPrompt, generatedImage, error, appState,
    storedKey,
    \* ---- the handlers held by the two memoised panels (App.tsx 239-283, 285-377)
    inputPanel, outputPanel,
    \* ---- asynchronous work in flight
    validation,      \* the pending handleKeyValidation, or NoValidation
    rounds,          \* the processGeneration rounds started so far
    \* ---- a service function called on its own (part_000)
    svcCall, svcOut, svcReqs, svcAnswers

appVars == <<apiKey, isKeyValid, isKeyLoading, rawImage, styleImage,
             userPrompt, editSuggestion, generatedPrompt, generatedImage, error,
             appState, storedKey, inputPanel, outputPanel,
             validation, rounds>>
svcVars == <<svcCall, svcOut, svcReqs, svcAnswers>>
vars == <<appVars, svcVars>>

-----------------------------------------------------------------------------
(* JavaScript values *)

Null == <<"\\null">>
Undefined == <<"\\undefined">>
Empty == <<>>

\* JavaScript truthiness of a string | null | undefined
Truthy(v) == v # Null /\ v # Undefined /\ v # Empty

\* String.prototype.toLowerCase, one character
LowerChar(c) ==
    CASE c = "A" -> "a" [] c = "B" -> "b" [] c = "C" -> "c" [] c = "D" -> "d"
      [] c = "E" -> "e" [] c = "F" -> "f" [] c = "G" -> "g" [] c = "H" -> "h"
      [] c = "I" -> "i" [] c = "J" -> "j" [] c = "K" -> "k" [] c = "L" -> "l"
      [] c = "M" -> "m" [] c = "N" -> "n" [] c = "O" -> "o" [] c = "P" -> "p"
      [] c = "Q" -> "q" [] c = "R" -> "r" [] c = "S" -> "s" [] c = "T" -> "t"
      [] c = "U" -> "u" [] c = "V" -> "v" [] c = "W" -> "w" [] c = "X" -> "x"
      [] c = "Y" -> "y" [] c = "Z" -> "z" [] OTHER -> c

toLowerCase(s) == [i \in 1..Len(s) |-> LowerChar(s[i])]

\* String.prototype.includes
includes(s, sub) ==
    \E i \in 0..(Len(s) - Len(sub)) : SubSeq(s, i + 1, i + Len(sub)) = sub

\* String.prototype.startsWith
startsWith(s, prefix) ==
    Len(s) >= Len(prefix) /\ SubSeq(s, 1, Len(prefix)) = prefix

\* String.prototype.indexOf for a one-character separator; 0 when absent
indexOf(s, c) ==
    IF \E i \in 1..Len(s) : s[i] = c
    THEN CHOOSE i \in 1..Len(s) : s[i] = c /\ \A j \in 1..(i - 1) : s[j] # c
    ELSE 0

\* String.prototype.split for a one-character separator
RECURSIVE split(_, _)
split(s, sep) ==
    LET i == indexOf(s, sep)
    IN  IF i = 0 THEN <<s>>
        ELSE <<SubSeq(s, 1, i - 1)>> \o split(SubSeq(s, i + 1, Len(s)), sep)

\* array element access: arr[k] of JavaScript, k counted from 0
At(arr, k) == IF k + 1 <= Len(arr) THEN arr[k + 1] ELSE Undefined

IsSpace(c) == c \in {" ", "\n", "\t"}

\* String.prototype.trim
RECURSIVE trimStart(_)
trimStart(s) ==
    IF s # Empty /\ IsSpace(Head(s)) THEN trimStart(Tail(s)) ELSE s

RECURSIVE trimEnd(_)
trimEnd(s) ==
    IF s # Empty /\ IsSpace(s[Len(s)]) THEN trimEnd(SubSeq(s, 1, Len(s) - 1)) ELSE s

trim(s) == trimEnd(trimStart(s))

-----------------------------------------------------------------------------
(* part_000 3-7: getMimeTypeAndData *)

\* as getMimeTypeAndData, without the split on the colon
getMimeTypeAndDataKeepsScheme(base64) ==
    LET pieces == split(base64, ",")
        meta == At(pieces, 0)
        data == At(pieces, 1)
        mimeType == At(split(meta, ";"), 0)
    IN  [mimeType |-> mimeType, data |-> data]

getMimeTypeAndData(base64) ==
    LET pieces == split(base64, ",")
        meta == At(pieces, 0)
        data == At(pieces, 1)
        mimeType == At(split(At(split(meta, ";"), 0), ":"), 1)
    IN  [mimeType |-> mimeType, data |-> data]

-----------------------------------------------------------------------------
(* Errors and outcomes.  An error object has an identity: errors made by   *)
(* `new Error(...)` inside the service have id 0, errors raised by the     *)
(* upstream SDK have an id >= 1.  A thrown value that is not an Error has  *)
(* isError = FALSE.                                                        *)

ErrorObject(id, message) == [isError |-> TRUE, id |-> id, message |-> message]
NewError(message) == ErrorObject(0, message)
NonErrorValue == [isError |-> FALSE, id |-> 0, message |-> Undefined]

Return(v) == [kind |-> "return", val |-> v]
Throw(e) == [kind |-> "throw", val |-> e]

\* part_000 19
QuotaMessage ==
    <<"A","P","I"," ","Q","u","o","t","a"," ","E","x","c","e","e","d",
      "e","d"," ","o","r"," ","B","i","l","l","i","n","g"," ","n","o",
      "t"," ","e","n","a","b","l","e","d","."," ","P","l","e","a","s",
      "e"," ","e","n","s","u","r","e"," ","t","h","e"," ","G","o","o",
      "g","l","e"," ","C","l","o","u","d"," ","p","r","o","j","e","c",
      "t"," ","f","o","r"," ","y","o","u","r"," ","A","P","I"," ","k",
      "e","y"," ","h","a","s"," ","b","i","l","l","i","n","g"," ","e",
      "n","a","b","l","e","d","."," ","F","o","r"," ","m","o","r","e",
      " ","i","n","f","o",","," ","s","e","e",":"," ","a","i",".","g",
      "o","o","g","l","e",".","d","e","v","/","g","e","m","i","n","i",
      "-","a","p","i","/","d","o","c","s","/","b","i","l","l","i","n",
      "g">>

\* part_000 23
InvalidKeyMessage ==
    <<"I","n","v","a","l","i","d"," ","A","P","I"," ","K","e","y",".",
      " ","P","l","e","a","s","e"," ","c","h","e","c","k"," ","y","o",
      "u","r"," ","k","e","y"," ","a","n","d"," ","t","r","y"," ","a",
      "g","a","i","n",".">>

\* part_000 29
UnknownMessage ==
    <<"A","n"," ","u","n","k","n","o","w","n"," ","e","r","r","o","r",
      " ","o","c","c","u","r","r","e","d",".">>

\* part_000 169
NoImageMessage ==
    <<"N","o"," ","i","m","a","g","e"," ","d","a","t","a"," ","f","o",
      "u","n","d"," ","i","n"," ","t","h","e"," ","A","I","'","s"," ",
      "r","e","s","p","o","n","s","e",".">>

KwQuota == <<"q","u","o","t","a">>
KwResourceExhausted == <<"r","e","s","o","u","r","c","e","_","e","x","h","a","u","s","t","e","d">>
KwBilling == <<"b","i","l","l","i","n","g">>
KwApiKeyNotValid == <<"a","p","i"," ","k","e","y"," ","n","o","t"," ","v","a","l","i","d">>

\* as handleApiError, matching the message as written instead of lower-cased
handleApiErrorCaseSensitive(err) ==
    IF err.isError
    THEN LET message == err.message
         IN  IF \/ includes(message, KwQuota)
                \/ includes(message, KwResourceExhausted)
                \/ includes(message, KwBilling)
             THEN Throw(NewError(QuotaMessage))
             ELSE IF includes(message, KwApiKeyNotValid)
                  THEN Throw(NewError(InvalidKeyMessage))
                  ELSE Throw(err)
    ELSE Throw(NewError(UnknownMessage))

\* part_000 9-30: every path ends in a throw
handleApiError(err) ==
    IF err.isError
    THEN LET message == toLowerCase(err.message)
         IN  IF \/ includes(message, KwQuota)
                \/ includes(message, KwResourceExhausted)
                \/ includes(message, KwBilling)
             THEN Throw(NewError(QuotaMessage))
             ELSE IF includes(message, KwApiKeyNotValid)
                  THEN Throw(NewError(InvalidKeyMessage))
                  ELSE Throw(err)
    ELSE Throw(NewError(UnknownMessage))

-----------------------------------------------------------------------------
(* The upstream service: a request either succeeds with a response (its    *)
(* aggregate text and the content parts of its first candidate) or fails   *)
(* with a thrown value.                                                    *)

TextPart(t) ==
    [text |-> t, hasInlineData |-> FALSE, mimeType |-> Undefined, data |-> Undefined]
InlinePart(mt, d) ==
    [text |-> Undefined, hasInlineData |-> TRUE, mimeType |-> mt, data |-> d]

Success(text, parts) ==
    [ok |-> TRUE, text |-> text, parts |-> parts, error |-> NonErrorValue]
Failure(thrown) ==
    [ok |-> FALSE, text |-> Undefined, parts |-> <<>>, error |-> thrown]

-----------------------------------------------------------------------------
(* part_000 37-53: validateApiKey *)

\* part_000 38-40: an empty key returns false before any request
validateApiKeySkips(key) == ~Truthy(key)

\* part_000 42-47
validateApiKeyRequest(key) ==
    [fn |-> "validateApiKey", apiKey |-> key, model |-> "gemini-2.5-flash",
     parts |-> <<>>, contents |-> <<"h","e","l","l","o">>, enhancement |-> FALSE]

\* as validateApiKeyResult, without the catch
validateApiKeyRethrows(upstream) ==
    IF upstream.ok THEN Return(TRUE) ELSE Throw(upstream.error)

\* part_000 48-52: true when the awaited request resolves, false from the catch
validateApiKeyResult(upstream) ==
    IF upstream.ok THEN Return(TRUE) ELSE Return(FALSE)

-----------------------------------------------------------------------------
(* part_000 67-130: analyzeIdea *)

RawImageLabel ==
    <<"T","h","i","s"," ","i","s"," ","t","h","e"," ","R","A","W"," ","I","M","A","G","E"," ","(","t","h","e"," ","s","u","b","j","e","c","t",")",":">>
StyleImageLabel ==
    <<"T","h","i","s"," ","i","s"," ","t","h","e"," ","S","T","Y","L","E"," ","I","M","A","G","E"," ","(","t","h","e"," ","r","e","f","e","r","e","n","c","e"," ","f","o","r"," ","a","e","s","t","h","e","t","i","c","s",")",":">>
GoalPrefix == <<"U","s","e","r","'","s"," ","g","o","a","l",":"," ">>
PreviousPromptPrefix == <<"P","R","E","V","I","O","U","S"," ","P","R","O","M","P","T",":"," ">>
EditSuggestionPrefix == <<"E","D","I","T"," ","S","U","G","G","E","S","T","I","O","N",":"," ">>
Quote == <<"\"">>
Newline == <<"\n">>

\* part_000 90-95 and 97-102: a label part and the decoded image, when supplied
imageParts(label, base64) ==
    IF Truthy(base64)
    THEN LET md == getMimeTypeAndData(base64)
         IN  <<TextPart(label), InlinePart(md.mimeType, md.data)>>
    ELSE <<>>

\* as enhancementMode, entered when either value is supplied
enhancementModeEither(previousPrompt, suggestion) ==
    Truthy(previousPrompt) \/ Truthy(suggestion)

\* part_000 104: the enhancement gate
enhancementMode(previousPrompt, suggestion) ==
    Truthy(previousPrompt) /\ Truthy(suggestion)

\* part_000 88 and 112
textContent(goal, previousPrompt, suggestion) ==
    GoalPrefix \o Quote \o goal \o Quote \o Newline
    \o (IF enhancementMode(previousPrompt, suggestion)
        THEN Newline \o PreviousPromptPrefix \o Quote \o previousPrompt \o Quote
             \o Newline \o EditSuggestionPrefix \o Quote \o suggestion \o Quote
        ELSE Empty)

\* part_000 76-124: the request analyzeIdea issues
analyzeIdeaRequest(key, rawImageBase64, styleImageBase64, goal, previousPrompt, suggestion) ==
    [fn |-> "analyzeIdea", apiKey |-> key, model |-> "gemini-2.5-pro",
     parts |-> imageParts(RawImageLabel, rawImageBase64)
               \o imageParts(StyleImageLabel, styleImageBase64)
               \o <<TextPart(textContent(goal, previousPrompt, suggestion))>>,
     contents |-> Undefined,
     enhancement |-> enhancementMode(previousPrompt, suggestion)]

\* part_000 126-129
analyzeIdeaResult(upstream) ==
    IF upstream.ok THEN Return(trim(upstream.text)) ELSE handleApiError(upstream.error)

-----------------------------------------------------------------------------
(* part_000 140-173: generateImage *)

ImagePrefix == <<"i","m","a","g","e","/">>

\* as generateImageRequest, with the image pushed after the text part
generateImageRequestTextFirst(key, prompt, rawImageBase64) ==
    [fn |-> "generateImage", apiKey |-> key, model |-> "gemini-2.5-flash-image",
     parts |-> <<TextPart(prompt)>>
               \o (IF Truthy(rawImageBase64)
                   THEN LET md == getMimeTypeAndData(rawImageBase64)
                        IN  <<InlinePart(md.mimeType, md.data)>>
                   ELSE <<>>),
     contents |-> Undefined, enhancement |-> FALSE]

\* part_000 145-161: the request generateImage issues
generateImageRequest(key, prompt, rawImageBase64) ==
    [fn |-> "generateImage", apiKey |-> key, model |-> "gemini-2.5-flash-image",
     parts |-> (IF Truthy(rawImageBase64)
                THEN LET md == getMimeTypeAndData(rawImageBase64)
                     IN  <<InlinePart(md.mimeType, md.data)>>
                ELSE <<>>) \o <<TextPart(prompt)>>,
     contents |-> Undefined, enhancement |-> FALSE]

\* part_000 164
isImagePart(part) == part.hasInlineData /\ startsWith(part.mimeType, ImagePrefix)

\* as scanParts, looking at the first part only
scanFirstPartOnly(parts) ==
    IF parts # <<>> /\ isImagePart(Head(parts)) THEN Return(Head(parts).data)
    ELSE Throw(NewError(NoImageMessage))

\* part_000 163-169: the scan of the first candidate's parts
RECURSIVE scanParts(_)
scanParts(parts) ==
    IF parts = <<>> THEN Throw(NewError(NoImageMessage))
    ELSE IF isImagePart(Head(parts)) THEN Return(Head(parts).data)
    ELSE scanParts(Tail(parts))

\* part_000 163-172: what generateImage does with the upstream's answer
generateImageResult(upstream) ==
    IF upstream.ok
    THEN LET r == scanParts(upstream.parts)
         IN  IF r.kind = "throw" THEN handleApiError(r.val) ELSE r
    ELSE handleApiError(upstream.error)

-----------------------------------------------------------------------------
(* api/gemini-proxy.js 7-49: the relay handler *)

MethodPost == <<"P","O","S","T">>
ActionAnalyzeIdea == <<"a","n","a","l","y","z","e","I","d","e","a">>
ActionGenerateImage == <<"g","e","n","e","r","a","t","e","I","m","a","g","e">>
MethodNotAllowedMessage ==
    <<"M","e","t","h","o","d"," ","n","o","t"," ","a","l","l","o","w","e","d">>
MissingFieldsMessage ==
    <<"M","i","s","s","i","n","g"," ","r","e","q","u","i","r","e","d"," ",
      "f","i","e","l","d","s",":"," ","a","c","t","i","o","n",","," ",
      "m","o","d","e","l",","," ","c","o","n","t","e","n","t","s">>
InvalidActionMessage ==
    <<"I","n","v","a","l","i","d"," ","a","c","t","i","o","n"," ","t","y","p","e">>
FailedRequestMessage ==
    <<"F","a","i","l","e","d"," ","t","o"," ","p","r","o","c","e","s","s"," ",
      "r","e","q","u","e","s","t">>

\* the TypeError of reading a property of undefined
TypeErrorValue == ErrorObject(2, <<"T","y","p","e","E","r","r","o","r">>)

\* res.status(status).json(...): the responses sent so far
ErrorResponse(status, message, details) ==
    [status |-> status, error |-> message, details |-> details,
     text |-> Undefined, imageData |-> Undefined]
TextResponse(text) ==
    [status |-> 200, error |-> Undefined, details |-> Undefined,
     text |-> text, imageData |-> Undefined]
ImageResponse(data) ==
    [status |-> 200, error |-> Undefined, details |-> Undefined,
     text |-> Undefined, imageData |-> data]

\* proxy 42-48: the catch
handlerCatch(thrown) == ErrorResponse(500, FailedRequestMessage, thrown.message)

\* no response sent yet
NoResponse == ErrorResponse(0, Undefined, Undefined)

\* a request without a body: req.body is undefined
NoBody == [present |-> FALSE, action |-> Undefined, model |-> Undefined,
           contents |-> Undefined]

\* proxy 9-19: the response sent before any upstream call, or NoResponse when
\* the handler goes on to call the upstream; destructuring an absent body throws
handlerEarlyResponse(req) ==
    IF req.method # MethodPost THEN ErrorResponse(405, MethodNotAllowedMessage, Undefined)
    ELSE IF ~req.body.present THEN handlerCatch(TypeErrorValue)
    ELSE IF ~Truthy(req.body.action) \/ ~Truthy(req.body.model) \/ ~Truthy(req.body.contents)
         THEN ErrorResponse(400, MissingFieldsMessage, Undefined)
    ELSE NoResponse

\* proxy 22-26
handlerRequest(req) ==
    [fn |-> "handler", apiKey |-> Undefined, model |-> req.body.model,
     parts |-> <<>>, contents |-> req.body.contents, enhancement |-> FALSE]

\* proxy 28-48: the response sent once the upstream has answered
handlerResponse(req, upstream) ==
    IF ~upstream.ok THEN handlerCatch(upstream.error)
    ELSE IF req.body.action = ActionAnalyzeIdea
         THEN IF upstream.text = Undefined THEN handlerCatch(TypeErrorValue)
              ELSE TextResponse(trim(upstream.text))
    ELSE IF req.body.action = ActionGenerateImage
         THEN LET found == scanParts(upstream.parts)
              IN  IF found.kind = "return" THEN ImageResponse(found.val)
                  ELSE ErrorResponse(500, NoImageMessage, Undefined)
    ELSE ErrorResponse(400, InvalidActionMessage, Undefined)

-----------------------------------------------------------------------------
(* Bounds and input sets *)

MaxFieldLen == 2     \* longest media type and longest payload of a data URI
MaxInputLen == 3     \* longest arbitrary string handed to getMimeTypeAndData
MaxParts == 3        \* most content parts in an upstream response
MaxRounds == 2       \* most generation rounds started in one behaviour

RECURSIVE StringsUpTo(_, _)
StringsUpTo(alphabet, n) ==
    IF n = 0 THEN {<<>>}
    ELSE LET shorter == StringsUpTo(alphabet, n - 1)
         IN  shorter \cup {Append(w, c) : w \in shorter, c \in alphabet}

\* characters of a data URI: a plain character and every separator the decoder splits on
UriAlphabet == {"a", "/", ",", ";", ":"}
Fields == StringsUpTo(UriAlphabet, MaxFieldLen)

DataScheme == <<"d","a","t","a",":">>
Base64Marker == <<";","b","a","s","e","6","4",",">>
DataUri(mt, d) == DataScheme \o mt \o Base64Marker \o d

ArbitraryInputs == StringsUpTo({"a", ",", ":", ";"}, MaxInputLen) \ {Empty}

PngA == DataUri(<<"i","m","a","g","e","/","p","n","g">>, <<"A">>)
JpgB == DataUri(<<"i","m","a","g","e","/","j","p","e","g">>, <<"B">>)

Keys == {<<"k","1">>}
Goals == {Empty, <<"g">>}
Suggestions == {Empty, <<"s">>}

\* texts an upstream answer can carry: padded, and blank
UpstreamTexts == {<<" ","p","\n">>, <<" ">>}

MessageFragments ==
    { Empty,
      <<"Q","u","o","t","a">>,
      <<"q","u","o","t">>,
      <<"R","E","S","O","U","R","C","E","_","E","X","H","A","U","S","T","E","D">>,
      <<"B","i","l","l","i","n","g">>,
      <<"A","P","I"," ","k","e","y"," ","n","o","t"," ","v","a","l","i","d">>,
      <<"a","p","i"," ","k","e","y"," ","v","a","l","i","d">>,
      <<"b","o","o","m"," ">> }

Messages == {a \o b : a \in MessageFragments, b \in MessageFragments}

ThrownValues == {ErrorObject(1, m) : m \in Messages} \cup {NonErrorValue}

PartAlphabet ==
    { TextPart(<<"h","i">>),
      InlinePart(<<"i","m","a","g","e","/","p","n","g">>, <<"A">>),
      InlinePart(<<"i","m","a","g","e","/","j","p","e","g">>, <<"B">>),
      InlinePart(<<"t","e","x","t","/","p","l","a","i","n">>, <<"C">>),
      InlinePart(<<"I","M","A","G","E","/","P","N","G">>, <<"D">>),
      InlinePart(<<"i","m","a","g","e">>, <<"E">>) }

PartSequences == StringsUpTo(PartAlphabet, MaxParts)

-----------------------------------------------------------------------------
(* A service function called on its own.  svcCall is the call, svcReqs the *)
(* upstream requests it has issued, svcAnswers the upstream's answers to   *)
(* them, svcOut its outcome: "pending" while the call awaits the upstream, *)
(* then "return" or "throw".                                               *)

NoCall == [fn |-> "none", args |-> <<>>]
NoOutcome == [kind |-> "none", val |-> Undefined]
Pending == [kind |-> "pending", val |-> Undefined]

\* one call per behaviour
SvcIdle == svcCall = NoCall

\* the answers the upstream can give to a request of service function fn
UpstreamAnswers(fn) ==
    (IF fn = "generateImage"
     THEN {Success(Undefined, ps) : ps \in PartSequences}
     ELSE {Success(tx, <<>>) : tx \in UpstreamTexts})
    \cup {Failure(th) : th \in ThrownValues}

SvcGetMimeTypeAndData ==
    /\ SvcIdle
    /\ \E base64 \in ArbitraryInputs \cup {DataUri(mt, d) : mt \in Fields, d \in Fields} :
          /\ svcCall' = [fn |-> "getMimeTypeAndData", args |-> <<base64>>]
          /\ svcOut' = Return(getMimeTypeAndData(base64))
    /\ svcReqs' = <<>>
    /\ svcAnswers' = <<>>
    /\ UNCHANGED appVars

SvcHandleApiError ==
    /\ SvcIdle
    /\ \E thrown \in ThrownValues :
          /\ svcCall' = [fn |-> "handleApiError", args |-> <<thrown>>]
          /\ svcOut' = handleApiError(thrown)
    /\ svcReqs' = <<>>
    /\ svcAnswers' = <<>>
    /\ UNCHANGED appVars

SvcValidateApiKey ==
    /\ SvcIdle
    /\ \E key \in Keys \cup {Empty} :
          /\ svcCall' = [fn |-> "validateApiKey", args |-> <<key>>]
          /\ svcOut' = (IF validateApiKeySkips(key) THEN Return(FALSE) ELSE Pending)
          /\ svcReqs' = (IF validateApiKeySkips(key)
                          THEN <<>>
                          ELSE <<validateApiKeyRequest(key)>>)
    /\ svcAnswers' = <<>>
    /\ UNCHANGED appVars

SvcAnalyzeIdea ==
    /\ SvcIdle
    /\ \E key \in Keys, raw \in {Null, PngA} \cup ArbitraryInputs, style \in {Null, JpgB},
          goal \in Goals, prev \in {Undefined, Empty, <<"p">>},
          sugg \in {Undefined} \cup Suggestions :
          /\ svcCall' = [fn |-> "analyzeIdea", args |-> <<key, raw, style, goal, prev, sugg>>]
          /\ svcReqs' = <<analyzeIdeaRequest(key, raw, style, goal, prev, sugg)>>
    /\ svcOut' = Pending
    /\ svcAnswers' = <<>>
    /\ UNCHANGED appVars

SvcGenerateImage ==
    /\ SvcIdle
    /\ \E key \in Keys, prompt \in {Empty, <<"p">>}, raw \in {Null, PngA} \cup ArbitraryInputs :
          /\ svcCall' = [fn |-> "generateImage", args |-> <<key, prompt, raw>>]
          /\ svcReqs' = <<generateImageRequest(key, prompt, raw)>>
    /\ svcOut' = Pending
    /\ svcAnswers' = <<>>
    /\ UNCHANGED appVars

\* the upstream answers the pending request
SvcRespond ==
    /\ svcOut.kind = "pending"
    /\ svcCall.fn # "handler"
    /\ \E upstream \in UpstreamAnswers(svcCall.fn) :
          /\ svcAnswers' = <<upstream>>
          /\ svcOut' = CASE svcCall.fn = "validateApiKey" -> validateApiKeyResult(upstream)
                         [] svcCall.fn = "analyzeIdea" -> analyzeIdeaResult(upstream)
                         [] OTHER -> generateImageResult(upstream)
    /\ UNCHANGED <<svcCall, svcReqs, appVars>>

\* the relay handler called on its own; its outcome is the responses it sent
Sent(responses) == [responses |-> responses]

HandlerBodies ==
    {NoBody} \cup
    [present : {TRUE},
     action : {Undefined, Empty, ActionAnalyzeIdea, ActionGenerateImage, <<"x">>},
     model : {Undefined, <<"m">>},
     contents : {Undefined, <<"c">>}]
HandlerRequests == [method : {MethodPost, <<"G","E","T">>}, body : HandlerBodies]
HandlerAnswers ==
    {Success(tx, ps) : tx \in UpstreamTexts \cup {Undefined},
                       ps \in StringsUpTo(PartAlphabet, 2)}
    \cup {Failure(th) : th \in {ErrorObject(1, <<"b","o","o","m">>), NonErrorValue}}

SvcHandler ==
    /\ SvcIdle
    /\ \E req \in HandlerRequests :
          /\ svcCall' = [fn |-> "handler", args |-> <<req>>]
          /\ svcOut' = (IF handlerEarlyResponse(req) # NoResponse
                         THEN Return(Sent(<<handlerEarlyResponse(req)>>))
                         ELSE Pending)
          /\ svcReqs' = (IF handlerEarlyResponse(req) # NoResponse
                          THEN <<>>
                          ELSE <<handlerRequest(req)>>)
    /\ svcAnswers' = <<>>
    /\ UNCHANGED appVars

SvcHandlerRespond ==
    /\ svcOut.kind = "pending"
    /\ svcCall.fn = "handler"
    /\ \E upstream \in HandlerAnswers :
          /\ svcAnswers' = <<upstream>>
          /\ svcOut' = Return(Sent(<<handlerResponse(svcCall.args[1], upstream)>>))
    /\ UNCHANGED <<svcCall, svcReqs, appVars>>

-----------------------------------------------------------------------------
(* App.tsx: messages *)

\* App.tsx 109
FileReadMessage ==
    <<"F","a","i","l","e","d"," ","t","o"," ","r","e","a","d"," ","i",
      "m","a","g","e"," ","f","i","l","e",".">>

\* App.tsx 117
KeyRequiredMessage ==
    <<"P","l","e","a","s","e"," ","p","r","o","v","i","d","e"," ","a",
      "n","d"," ","v","a","l","i","d","a","t","e"," ","y","o","u","r",
      " ","G","e","m","i","n","i"," ","A","P","I"," ","k","e","y"," ",
      "t","o"," ","s","t","a","r","t",".">>

\* App.tsx 123
InputRequiredMessage ==
    <<"P","l","e","a","s","e"," ","p","r","o","v","i","d","e"," ","a",
      " ","r","a","w"," ","i","m","a","g","e",","," ","a"," ","s","t",
      "y","l","e"," ","i","m","a","g","e",","," ","o","r"," ","a"," ",
      "t","e","x","t"," ","d","e","s","c","r","i","p","t","i","o","n",
      " ","t","o"," ","s","t","a","r","t",".">>

\* App.tsx 144
FailedPrefix ==
    <<"F","a","i","l","e","d"," ","d","u","r","i","n","g"," ","i","m",
      "a","g","e"," ","c","r","e","a","t","i","o","n",":"," ">>

\* App.tsx 139
PngUriPrefix ==
    <<"d","a","t","a",":","i","m","a","g","e","/","p","n","g",";","b",
      "a","s","e","6","4",",">>

-----------------------------------------------------------------------------
(* App.tsx: the component *)

\* what an upload can deliver: fileToBase64 resolves with a data URI of the file
FileURIs == {PngA}

\* what the upstream can answer to the App's requests
AppImageResponses ==
    { <<TextPart(<<"h","i">>), InlinePart(<<"i","m","a","g","e","/","p","n","g">>, <<"A">>)>>,
      <<TextPart(<<"h","i">>)>> }
AppThrownValues ==
    { ErrorObject(1, <<"R","E","S","O","U","R","C","E","_","E","X","H","A","U","S","T","E","D">>) }
AppTextAnswers ==
    {Success(tx, <<>>) : tx \in UpstreamTexts} \cup {Failure(th) : th \in AppThrownValues}
AppImageAnswers ==
    {Success(Undefined, ps) : ps \in AppImageResponses}
    \cup {Failure(th) : th \in AppThrownValues}

\* how the App's service calls can end
AnalyzeOutcomes == {analyzeIdeaResult(upstream) : upstream \in AppTextAnswers}
ImageOutcomes == {generateImageResult(upstream) : upstream \in AppImageAnswers}

NoValidation == [active |-> FALSE, key |-> Undefined]
StartedValidation(key) == [active |-> TRUE, key |-> key]

\* App.tsx 172
isGenerateDisabled ==
    \/ appState = "GENERATING"
    \/ ~isKeyValid
    \/ (~Truthy(rawImage) /\ ~Truthy(styleImage) /\ ~Truthy(userPrompt))

\* what the output panel shows (App.tsx 285-375)
ShowsError == appState = "ERROR" /\ Truthy(error)
ShowsResult == appState = "RESULT_READY" /\ Truthy(generatedImage)

\* the state a processGeneration created by the current render closes over
Closure ==
    [isKeyValid |-> isKeyValid, apiKey |-> apiKey, rawImage |-> rawImage,
     styleImage |-> styleImage, userPrompt |-> userPrompt,
     generatedPrompt |-> generatedPrompt, editSuggestion |-> editSuggestion]

\* a panel that offers no button to start a round holds no processGeneration
NoHandler ==
    [isKeyValid |-> FALSE, apiKey |-> Undefined, rawImage |-> Undefined,
     styleImage |-> Undefined, userPrompt |-> Undefined,
     generatedPrompt |-> Undefined, editSuggestion |-> Undefined]

\* App.tsx 273-281: the Generate button as this render builds it: disabled, or
\* bound to handleGenerate, which does not read the prompt and the suggestion
GenerateButton ==
    IF isGenerateDisabled THEN NoHandler
    ELSE [Closure EXCEPT !.generatedPrompt = Undefined, !.editSuggestion = Undefined]

\* App.tsx 316-362: the Enhance button as this render builds it: only the
\* result view has one, bound to handleEnhance
EnhanceButton == IF ShowsResult THEN Closure ELSE NoHandler

\* App.tsx 283: dependencies of inputPanelContent
InputDeps == <<rawImage, styleImage, userPrompt, isGenerateDisabled>>
\* App.tsx 377: dependencies of outputPanelContent.  showPrompt and isCopied
\* only choose what the result view displays and are not modelled.
OutputDeps == <<appState, error, generatedPrompt, generatedImage, editSuggestion>>

\* The render that follows every state update.  A memoised panel is rebuilt,
\* and its buttons get the handlers of this render, only when one of its
\* dependencies changed; otherwise it keeps the handlers it was built with.
Render ==
    /\ inputPanel' = IF InputDeps' # InputDeps THEN GenerateButton' ELSE inputPanel
    /\ outputPanel' = IF OutputDeps' # OutputDeps THEN EnhanceButton' ELSE outputPanel

\* App.tsx 49-70: the first render, and the mount effect that validates a stored key
Init ==
    /\ storedKey \in Keys \cup {Null}
    /\ apiKey = (IF Truthy(storedKey) THEN storedKey ELSE Empty)
    /\ isKeyValid = FALSE
    /\ isKeyLoading = Truthy(storedKey)
    /\ rawImage = Null /\ styleImage = Null
    /\ userPrompt = Empty /\ editSuggestion = Empty
    /\ generatedPrompt = Empty /\ generatedImage = Null
    /\ error = Null /\ appState = "IDLE"
    /\ inputPanel = GenerateButton /\ outputPanel = EnhanceButton
    /\ validation = (IF Truthy(storedKey)
                     THEN StartedValidation(storedKey)
                     ELSE NoValidation)
    /\ rounds = <<>>
    /\ svcCall = NoCall /\ svcOut = NoOutcome /\ svcReqs = <<>> /\ svcAnswers = <<>>

sessionVars == <<rawImage, styleImage, userPrompt, editSuggestion, generatedPrompt,
                 generatedImage, error, appState>>
keyVars == <<apiKey, isKeyValid, isKeyLoading, storedKey, validation>>

-----------------------------------------------------------------------------
(* App.tsx 72-100: the credential.  keyError, the notice under the key      *)
(* field, is written by these handlers and read by nothing but the view;   *)
(* it is not modelled, and with it isAuto, which only selects the notice.  *)

\* App.tsx 206-209: typing in the key field, shown while the key is not valid
\* and enabled while no validation is loading
TypeApiKey ==
    /\ ~isKeyValid /\ ~isKeyLoading
    /\ \E v \in Keys \cup {Empty} : apiKey' = v
    /\ UNCHANGED <<isKeyValid, isKeyLoading, storedKey, validation>>
    /\ UNCHANGED <<sessionVars, rounds, svcVars>>
    /\ Render

\* as keyValidated, without the removeItem of a failed validation
keyValidatedKeepsStored(key, isValid) ==
    /\ isKeyValid' = isValid
    /\ storedKey' = (IF isValid THEN key ELSE storedKey)
    /\ isKeyLoading' = FALSE
    /\ validation' = NoValidation

\* as keyValidated, without the setIsKeyLoading(false) that ends it
keyValidatedKeepsLoading(key, isValid) ==
    /\ isKeyValid' = isValid
    /\ storedKey' = (IF isValid THEN key ELSE Null)
    /\ isKeyLoading' = isKeyLoading
    /\ validation' = NoValidation

\* App.tsx 82-92: the rest of handleKeyValidation once validateApiKey has answered
keyValidated(key, isValid) ==
    /\ isKeyValid' = isValid
    /\ storedKey' = (IF isValid THEN key ELSE Null)
    /\ isKeyLoading' = FALSE
    /\ validation' = NoValidation

\* App.tsx 72-81: handleKeyValidation(apiKey) from the Save button (214-218:
\* disabled without a key or while loading) or the Enter key in the field
handleKeyValidation ==
    /\ ~isKeyValid /\ ~isKeyLoading
    /\ IF ~Truthy(apiKey)
       THEN UNCHANGED <<apiKey, isKeyValid, isKeyLoading, storedKey, validation>>
       ELSE IF validateApiKeySkips(apiKey)
            THEN /\ keyValidated(apiKey, FALSE)
                 /\ apiKey' = apiKey
            ELSE /\ isKeyLoading' = TRUE
                 /\ apiKey' = apiKey
                 /\ validation' = StartedValidation(apiKey)
                 /\ UNCHANGED <<isKeyValid, storedKey>>
    /\ UNCHANGED <<sessionVars, rounds, svcVars>>
    /\ Render

\* App.tsx 81-92: the upstream answers validateApiKey's request
ValidationResponds ==
    /\ validation.active
    /\ \E upstream \in AppTextAnswers :
          keyValidated(validation.key, validateApiKeyResult(upstream).val)
    /\ UNCHANGED apiKey
    /\ UNCHANGED <<sessionVars, rounds, svcVars>>
    /\ Render

\* App.tsx 95-100: the Change Key button, shown while the key is valid (175-191)
handleKeyChange ==
    /\ isKeyValid
    /\ isKeyValid' = FALSE
    /\ apiKey' = Empty
    /\ storedKey' = Null
    /\ UNCHANGED <<isKeyLoading, validation>>
    /\ UNCHANGED <<sessionVars, rounds, svcVars>>
    /\ Render

-----------------------------------------------------------------------------
(* App.tsx 102-113 and 241-272: the inputs *)

image(u) == IF u = "raw" THEN rawImage ELSE styleImage

\* the setter handleFileChange was given: setRawImage or setStyleImage
setImage(u, v) ==
    /\ rawImage' = (IF u = "raw" THEN v ELSE rawImage)
    /\ styleImage' = (IF u = "style" THEN v ELSE styleImage)

\* App.tsx 102-107: a file was chosen in an uploader and its read succeeds.
\* An uploader shows its file input while it has no image (24-42); choosing
\* the file changes no state, so the handler is modelled where its await ends.
handleFileChange ==
    /\ \E u \in {"raw", "style"}, base64 \in FileURIs :
          /\ ~Truthy(image(u))
          /\ setImage(u, base64)
    /\ UNCHANGED <<userPrompt, editSuggestion, generatedPrompt, generatedImage,
                   error, appState>>
    /\ UNCHANGED <<keyVars, rounds, svcVars>>
    /\ Render

\* App.tsx 108-111: a file was chosen in an uploader and its read fails
handleFileChangeFails ==
    /\ \E u \in {"raw", "style"} : ~Truthy(image(u))
    /\ error' = FileReadMessage
    /\ appState' = "ERROR"
    /\ UNCHANGED <<rawImage, styleImage, userPrompt, editSuggestion, generatedPrompt,
                   generatedImage>>
    /\ UNCHANGED <<keyVars, rounds, svcVars>>
    /\ Render

\* App.tsx 245 and 253: the remove button of an uploader that shows an image
RemoveImage ==
    /\ \E u \in {"raw", "style"} :
          /\ Truthy(image(u))
          /\ setImage(u, Null)
    /\ UNCHANGED <<userPrompt, editSuggestion, generatedPrompt, generatedImage,
                   error, appState>>
    /\ UNCHANGED <<keyVars, rounds, svcVars>>
    /\ Render

\* App.tsx 269: typing the goal
TypeUserPrompt ==
    /\ \E v \in Goals : userPrompt' = v
    /\ UNCHANGED <<rawImage, styleImage, editSuggestion, generatedPrompt, generatedImage,
                   error, appState>>
    /\ UNCHANGED <<keyVars, rounds, svcVars>>
    /\ Render

\* App.tsx 352: typing the edit suggestion, in the result view
TypeEditSuggestion ==
    /\ ShowsResult
    /\ \E v \in Suggestions : editSuggestion' = v
    /\ UNCHANGED <<rawImage, styleImage, userPrompt, generatedPrompt, generatedImage,
                   error, appState>>
    /\ UNCHANGED <<keyVars, rounds, svcVars>>
    /\ Render

\* App.tsx 153-163: Try Again in the error view (301), Start Over in the result view (366)
handleReset ==
    /\ ShowsError \/ ShowsResult
    /\ rawImage' = Null /\ styleImage' = Null
    /\ userPrompt' = Empty
    /\ generatedPrompt' = Empty /\ generatedImage' = Null
    /\ error' = Null /\ appState' = "IDLE"
    /\ editSuggestion' = Empty
    /\ UNCHANGED <<keyVars, rounds, svcVars>>
    /\ Render

-----------------------------------------------------------------------------
(* App.tsx 115-151: a generation round *)

\* A round.  While it is in flight ("analyzing", "imaging") it holds the state
\* its processGeneration closed over (seen) and the arguments and outcome of
\* its analyzeIdea and generateImage calls; calls lists the service calls it
\* has made, each of which issues one upstream request.  Once it
\* has settled ("rejected", "promptFailed", "imageFailed", "done") its closure
\* is gone: what stays is which calls it made, how each ended and what they
\* returned.
NewRound(isEnhancement, seen, status, analyzeArgs) ==
    [isEnhancement |-> isEnhancement, status |-> status, seen |-> seen,
     analyzeArgs |-> analyzeArgs,
     analyzeOut |-> (IF status = "analyzing" THEN Pending ELSE NoOutcome),
     imageArgs |-> <<>>, imageOut |-> NoOutcome,
     calls |-> (IF status = "analyzing" THEN <<"analyzeIdea">> ELSE <<>>)]

Ended(out) == IF out.kind = "throw" THEN [kind |-> "throw", val |-> Undefined] ELSE out

Settled(r, status, analyzeOut, imageOut) ==
    [r EXCEPT !.status = status, !.seen = NoHandler, !.analyzeArgs = <<>>,
              !.imageArgs = <<>>,
              !.analyzeOut = Ended(analyzeOut), !.imageOut = Ended(imageOut)]

InFlight(r) == r.status \in {"analyzing", "imaging"}

\* App.tsx 122
hasNoInput(seen) ==
    ~Truthy(seen.rawImage) /\ ~Truthy(seen.styleImage) /\ ~Truthy(seen.userPrompt)

\* App.tsx 116-126: the message processGeneration fails fast with, or Null
preconditionError(seen) ==
    IF ~seen.isKeyValid THEN KeyRequiredMessage
    ELSE IF hasNoInput(seen) THEN InputRequiredMessage
    ELSE Null

\* App.tsx 132-135: the arguments of the analyzeIdea call
analyzeCallArgs(isEnhancement, seen) ==
    LET previousPrompt == IF isEnhancement THEN seen.generatedPrompt ELSE Undefined
        suggestion == IF isEnhancement THEN seen.editSuggestion ELSE Undefined
    IN  <<seen.apiKey, seen.rawImage, seen.styleImage, seen.userPrompt,
          previousPrompt, suggestion>>

\* as imageCallArgs, but reading the component's state instead of the values
\* the round holds: the prompt state is not yet updated when it is read
imageCallArgsFromState(seen, newPrompt) == <<apiKey, generatedPrompt, rawImage>>

\* App.tsx 138: the arguments of the generateImage call
imageCallArgs(seen, newPrompt) == <<seen.apiKey, newPrompt, seen.rawImage>>

\* App.tsx 115-135: processGeneration as created by the render whose state is
\* `seen`, up to its first await
processGeneration(isEnhancement, seen) ==
    /\ Len(rounds) < MaxRounds
    /\ IF preconditionError(seen) # Null
       THEN /\ error' = preconditionError(seen)
            /\ appState' = "ERROR"
            /\ rounds' = Append(rounds, NewRound(isEnhancement, NoHandler, "rejected", <<>>))
            /\ UNCHANGED generatedImage
       ELSE LET args == analyzeCallArgs(isEnhancement, seen)
            IN  /\ error' = Null
                /\ appState' = "GENERATING"
                /\ generatedImage' = Null
                /\ rounds' = Append(rounds, NewRound(isEnhancement, seen, "analyzing", args))
    /\ UNCHANGED <<rawImage, styleImage, userPrompt, editSuggestion, generatedPrompt>>
    /\ UNCHANGED <<keyVars, svcVars>>
    /\ Render

\* App.tsx 150 and 273-281: the Generate button of the input panel
handleGenerate ==
    /\ ~isGenerateDisabled
    /\ processGeneration(FALSE, inputPanel)

\* App.tsx 151 and 354-362: the Enhance button of the result view
handleEnhance ==
    /\ ShowsResult
    /\ ~(appState = "GENERATING" \/ ~Truthy(editSuggestion))
    /\ processGeneration(TRUE, outputPanel)

\* App.tsx 142-146
catchMessage(thrown) ==
    FailedPrefix \o (IF thrown.isError THEN thrown.message ELSE UnknownMessage)

\* App.tsx 135-138 and 142-146: analyzeIdea settles; on success the prompt is
\* stored and generateImage is called with it
AnalyzeResponds ==
    /\ \E i \in DOMAIN rounds, out \in AnalyzeOutcomes :
          /\ rounds[i].status = "analyzing"
          /\ LET r == rounds[i]
                 newPrompt == out.val
                 args == imageCallArgs(r.seen, newPrompt)
             IN  IF out.kind = "return"
                 THEN /\ generatedPrompt' = newPrompt
                      /\ rounds' = [rounds EXCEPT ![i] =
                            [r EXCEPT !.status = "imaging", !.analyzeOut = out,
                                      !.imageArgs = args, !.imageOut = Pending,
                                      !.calls = Append(@, "generateImage")]]
                      /\ UNCHANGED <<error, appState>>
                 ELSE /\ error' = catchMessage(out.val)
                      /\ appState' = "ERROR"
                      /\ rounds' = [rounds EXCEPT ![i] =
                                       Settled(r, "promptFailed", out, NoOutcome)]
                      /\ UNCHANGED generatedPrompt
    /\ UNCHANGED <<rawImage, styleImage, userPrompt, editSuggestion, generatedImage>>
    /\ UNCHANGED <<keyVars, svcVars>>
    /\ Render

\* App.tsx 138-146: generateImage settles
ImageResponds ==
    /\ \E i \in DOMAIN rounds, out \in ImageOutcomes :
          /\ rounds[i].status = "imaging"
          /\ LET r == rounds[i]
             IN  IF out.kind = "return"
                 THEN /\ generatedImage' = PngUriPrefix \o out.val
                      /\ appState' = "RESULT_READY"
                      /\ editSuggestion' = Empty
                      /\ rounds' = [rounds EXCEPT ![i] = Settled(r, "done", r.analyzeOut, out)]
                      /\ UNCHANGED error
                 ELSE /\ error' = catchMessage(out.val)
                      /\ appState' = "ERROR"
                      /\ rounds' = [rounds EXCEPT ![i] =
                                       Settled(r, "imageFailed", r.analyzeOut, out)]
                      /\ UNCHANGED <<generatedImage, editSuggestion>>
    /\ UNCHANGED <<rawImage, styleImage, userPrompt, generatedPrompt>>
    /\ UNCHANGED <<keyVars, svcVars>>
    /\ Render

-----------------------------------------------------------------------------
(* Specifications *)

Next ==
    \/ TypeApiKey \/ handleKeyValidation \/ ValidationResponds \/ handleKeyChange
    \/ handleFileChange \/ handleFileChangeFails \/ RemoveImage
    \/ TypeUserPrompt \/ TypeEditSuggestion \/ handleReset
    \/ handleGenerate \/ handleEnhance \/ AnalyzeResponds \/ ImageResponds

Spec == Init /\ [][Next]_vars

\* the service functions called directly, the App left as first rendered
InitSvc ==
    /\ Init
    /\ storedKey = Null

NextSvc ==
    \/ SvcGetMimeTypeAndData \/ SvcHandleApiError \/ SvcValidateApiKey
    \/ SvcAnalyzeIdea \/ SvcGenerateImage \/ SvcRespond
    \/ SvcHandler \/ SvcHandlerRespond

SpecSvc == InitSvc /\ [][NextSvc]_vars

\* Every issued network call eventually returns or fails: an awaited
\* validateApiKey, analyzeIdea or generateImage call does not stay pending
\* forever (App.tsx 81, 135, 138).
CallsSettle ==
    /\ WF_vars(ValidationResponds)
    /\ WF_vars(AnalyzeResponds)
    /\ WF_vars(ImageResponds)

FairSpec == Init /\ [][Next]_vars /\ CallsSettle

-----------------------------------------------------------------------------
(* Properties of the generation round (Spec) *)

\* C1: in every round, generateImage is called only after the round's
\* analyzeIdea call has returned, with exactly the prompt that call returned
\* and the subject image the round was started with; a round whose prompt
\* call failed has made no image call.
C1_ImageCallFollowsPrompt ==
    \A i \in DOMAIN rounds :
        LET r == rounds[i]
            imageCalled == \E k \in DOMAIN r.calls : r.calls[k] = "generateImage"
        IN  /\ imageCalled => /\ r.calls = <<"analyzeIdea", "generateImage">>
                              /\ r.analyzeOut.kind = "return"
            /\ r.status = "imaging" =>
                  /\ r.imageArgs[2] = r.analyzeOut.val
                  /\ r.imageArgs[3] = r.analyzeArgs[2]
                  /\ r.imageArgs[3] = r.seen.rawImage
            /\ (r.status = "promptFailed" \/ r.analyzeOut.kind = "throw") => ~imageCalled

\* a round awaiting generateImage for a subject image, after an earlier round
\* whose prompt call failed
C1_Witness ==
    \E i, j \in DOMAIN rounds :
        /\ rounds[i].status = "promptFailed"
        /\ rounds[j].status = "imaging"
        /\ Truthy(rounds[j].imageArgs[3])

\* C2: a round started while the key is not marked valid, or while subject
\* image, style image and goal text are all absent, ends in ERROR with a
\* message, issues no network call and leaves the held prompt and image
\* unchanged.
C2_RejectedWithoutKeyOrInput ==
    [][ (/\ Len(rounds') = Len(rounds) + 1
         /\ (~isKeyValid \/ hasNoInput(Closure)))
        => (/\ rounds'[Len(rounds')].calls = <<>>
            /\ appState' = "ERROR"
            /\ Truthy(error')
            /\ generatedPrompt' = generatedPrompt
            /\ generatedImage' = generatedImage) ]_vars

\* C5: when a round completes successfully the session holds the prompt
\* analyzeIdea returned to that round and the image generateImage returned to
\* it as a PNG data URI, appState is RESULT_READY and the edit suggestion is
\* empty.
C5_SuccessHoldsBothOutputs ==
    [][ \A i \in DOMAIN rounds :
           (i \in DOMAIN rounds' /\ rounds[i].status = "imaging" /\ rounds'[i].status = "done")
           => (/\ generatedPrompt' = rounds[i].analyzeOut.val
               /\ generatedImage' = PngUriPrefix \o rounds'[i].imageOut.val
               /\ appState' = "RESULT_READY"
               /\ editSuggestion' = Empty) ]_vars

\* C6: after a round ends in failure, of the prompt call or of the image
\* call, appState is ERROR, error is a non-empty message and no generated
\* image is held.
C6_FailureExposesNoResult ==
    [][ \A i \in DOMAIN rounds :
           (/\ i \in DOMAIN rounds'
            /\ InFlight(rounds[i])
            /\ rounds'[i].status \in {"promptFailed", "imageFailed"})
           => (/\ appState' = "ERROR"
               /\ Truthy(error')
               /\ generatedImage' = Null) ]_vars

\* C7: the stored key is written only when a validation of that same key
\* returned true, and removed by every validation that returns false and by
\* Change Key; whenever the key is marked valid, the key in memory is
\* non-empty and equals the stored key.
C7_StoredKeyIsValidatedKey ==
    /\ [](isKeyValid => (Truthy(apiKey) /\ apiKey = storedKey))
    /\ [][ /\ (storedKey' # storedKey /\ storedKey' # Null) =>
                 (validation.active /\ ~validation'.active /\ isKeyValid'
                  /\ storedKey' = validation.key)
           /\ (validation.active /\ ~validation'.active /\ ~isKeyValid') =>
                 storedKey' = Null
           /\ (isKeyValid /\ ~isKeyValid') => storedKey' = Null ]_vars

\* the key is marked valid and held both in memory and in storage
C7_Witness == isKeyValid /\ Truthy(apiKey) /\ storedKey = apiKey

\* C14: at most one round is in flight at any time, and appState is
\* GENERATING whenever a round awaits its analyzeIdea or generateImage call.
C14_OneRoundInFlight ==
    /\ \A i, j \in DOMAIN rounds :
          (InFlight(rounds[i]) /\ InFlight(rounds[j])) => i = j
    /\ (\E i \in DOMAIN rounds : InFlight(rounds[i])) => appState = "GENERATING"

\* C15: whenever appState is RESULT_READY an image is held, and the held
\* prompt and the held image are the outputs of one and the same completed
\* round.
C15_ResultFromOneRound ==
    appState = "RESULT_READY" =>
        /\ generatedImage # Null
        /\ \E i \in DOMAIN rounds :
              /\ rounds[i].status = "done"
              /\ generatedPrompt = rounds[i].analyzeOut.val
              /\ generatedImage = PngUriPrefix \o rounds[i].imageOut.val

\* C16: every round started by Enhance calls analyzeIdea in enhancement mode:
\* its previousPrompt is non-empty and is the prompt of a completed round, and
\* its editSuggestion is non-empty.
C16_EnhanceRunsEnhancementMode ==
    \A i \in DOMAIN rounds :
        (rounds[i].isEnhancement /\ rounds[i].status = "analyzing") =>
            /\ Truthy(rounds[i].analyzeArgs[5])
            /\ Truthy(rounds[i].analyzeArgs[6])
            /\ enhancementMode(rounds[i].analyzeArgs[5], rounds[i].analyzeArgs[6])
            /\ \E j \in DOMAIN rounds :
                  /\ rounds[j].status = "done"
                  /\ rounds[j].analyzeOut.val = rounds[i].analyzeArgs[5]

\* C17: a step that returns the App to IDLE empties the session and leaves
\* the credential alone; and while the App is IDLE, the response of a round
\* started earlier writes neither a prompt nor an image.
C17_ResetDiscardsSession ==
    [][ /\ (appState # "IDLE" /\ appState' = "IDLE") =>
              /\ rawImage' = Null /\ styleImage' = Null
              /\ userPrompt' = Empty /\ editSuggestion' = Empty
              /\ generatedPrompt' = Empty /\ generatedImage' = Null
              /\ error' = Null
              /\ UNCHANGED <<apiKey, isKeyValid, storedKey>>
        /\ (appState = "IDLE" /\ Len(rounds') = Len(rounds)) =>
              /\ generatedPrompt' = generatedPrompt
              /\ generatedImage' = generatedImage ]_vars

\* C18: if every issued network call eventually returns or fails, the App
\* never stays in GENERATING forever and leaves it for RESULT_READY or ERROR,
\* every round in flight eventually settles, and a key validation that set
\* isKeyLoading eventually clears it.
C18_RoundsAndValidationsEnd ==
    /\ []<>(appState # "GENERATING")
    /\ [][ (appState = "GENERATING" /\ appState' # "GENERATING")
              => appState' \in {"RESULT_READY", "ERROR"} ]_vars
    /\ \A i \in 1..MaxRounds :
          []<>(i \in DOMAIN rounds => ~InFlight(rounds[i]))
    /\ []<>(~isKeyLoading)

\* a validation has cleared isKeyLoading and a round that called both
\* services has left GENERATING
C18_Witness ==
    /\ ~isKeyLoading /\ isKeyValid
    /\ appState \in {"RESULT_READY", "ERROR"}
    /\ \E i \in DOMAIN rounds : rounds[i].status \in {"done", "imageFailed"}

-----------------------------------------------------------------------------
(* Properties of the service functions (SpecSvc) *)

\* C3: validateApiKey never throws; an empty key returns false without a
\* request; a non-empty key issues exactly one request and returns true
\* exactly when that request succeeds.
C3_ValidateNeverThrows ==
    svcCall.fn = "validateApiKey" =>
        /\ svcOut.kind \in {"pending", "return"}
        /\ svcCall.args[1] = Empty => (svcOut = Return(FALSE) /\ svcReqs = <<>>)
        /\ svcCall.args[1] # Empty =>
              /\ Len(svcReqs) = 1
              /\ svcReqs[1].apiKey = svcCall.args[1]
              /\ svcOut.kind = "pending" <=> svcAnswers = <<>>
              /\ svcAnswers # <<>> => svcOut = Return(svcAnswers[1].ok)

\* the one request of a non-empty key failed and the call returned false
C3_Witness ==
    /\ svcCall.fn = "validateApiKey"
    /\ svcAnswers # <<>> /\ ~svcAnswers[1].ok /\ svcAnswers[1].error.isError
    /\ svcOut = Return(FALSE)

\* C4: handleApiError always throws: the quota error for an error whose
\* message contains, in any case, "quota", "resource_exhausted" or "billing";
\* otherwise the invalid-key error when it contains "api key not valid";
\* otherwise the error itself; the unknown error for a value that is not an
\* error.
C4_Classification ==
    svcCall.fn = "handleApiError" =>
        LET err == svcCall.args[1]
            Mentions(kw) ==
                \E k \in 0..(Len(err.message) - Len(kw)) :
                    \A j \in 1..Len(kw) : LowerChar(err.message[k + j]) = kw[j]
        IN  /\ svcOut.kind = "throw"
            /\ svcOut.val =
                  (IF ~err.isError THEN NewError(UnknownMessage)
                   ELSE IF Mentions(KwQuota) \/ Mentions(KwResourceExhausted)
                           \/ Mentions(KwBilling)
                        THEN NewError(QuotaMessage)
                   ELSE IF Mentions(KwApiKeyNotValid) THEN NewError(InvalidKeyMessage)
                   ELSE err)

\* a message that names both an invalid key and billing, in capitals, is
\* classified as the quota error
C4_Witness ==
    /\ svcCall.fn = "handleApiError"
    /\ svcCall.args[1].isError
    /\ includes(svcCall.args[1].message, <<"A","P","I"," ","k","e","y"," ","n","o","t"," ","v","a","l","i","d">>)
    /\ includes(svcCall.args[1].message, <<"B","i","l","l","i","n","g">>)
    /\ svcOut = Throw(NewError(QuotaMessage))

\* C8: for an answer with a sequence of parts, generateImage returns the data
\* of the first part that carries inline data with a media type starting
\* with "image/", and throws the "No image data found" error exactly when no
\* part is such a part.
C8_FirstImagePart ==
    (svcCall.fn = "generateImage" /\ svcAnswers # <<>> /\ svcAnswers[1].ok) =>
        LET parts == svcAnswers[1].parts
            IsImage(k) ==
                /\ parts[k].hasInlineData
                /\ Len(parts[k].mimeType) >= 6
                /\ \A j \in 1..6 : parts[k].mimeType[j] = ImagePrefix[j]
            images == {k \in DOMAIN parts : IsImage(k)}
        IN  /\ images # {} =>
                 \E k \in images :
                    /\ \A j \in images : k <= j
                    /\ svcOut = Return(parts[k].data)
            /\ images = {} <=> svcOut = Throw(NewError(NoImageMessage))

\* the image part is returned although a text part and an inline part of
\* another media type precede it
C8_Witness ==
    /\ svcCall.fn = "generateImage"
    /\ svcAnswers # <<>> /\ svcAnswers[1].ok
    /\ Len(svcAnswers[1].parts) = 3
    /\ ~svcAnswers[1].parts[1].hasInlineData
    /\ svcAnswers[1].parts[2].hasInlineData /\ ~isImagePart(svcAnswers[1].parts[2])
    /\ isImagePart(svcAnswers[1].parts[3])
    /\ svcOut = Return(svcAnswers[1].parts[3].data)

\* C9, as stated: for every data URI data:<mt>;base64,<d>,
\* getMimeTypeAndData returns exactly the pair (mt, d).  Every way of reading
\* the input as DataUri(mt, d) is taken: mt is what lies between the scheme
\* and an occurrence of the marker, d what follows it.
C9_DecodesEveryDataUri ==
    svcCall.fn = "getMimeTypeAndData" =>
        LET input == svcCall.args[1]
        IN  \A n \in 0..(Len(input) - Len(DataScheme) - Len(Base64Marker)) :
               LET mt == SubSeq(input, Len(DataScheme) + 1, Len(DataScheme) + n)
                   d == SubSeq(input, Len(DataScheme) + n + Len(Base64Marker) + 1, Len(input))
               IN  input = DataUri(mt, d)
                   => svcOut = Return([mimeType |-> mt, data |-> d])

\* C9, amended: for every data URI data:<mt>;base64,<d> whose mt contains
\* none of "," ";" ":" and whose d contains no ",", getMimeTypeAndData
\* returns exactly the pair (mt, d).
C9_DecodesSeparatorFreeDataUri ==
    svcCall.fn = "getMimeTypeAndData" =>
        LET input == svcCall.args[1]
        IN  \A n \in 0..(Len(input) - Len(DataScheme) - Len(Base64Marker)) :
               LET mt == SubSeq(input, Len(DataScheme) + 1, Len(DataScheme) + n)
                   d == SubSeq(input, Len(DataScheme) + n + Len(Base64Marker) + 1, Len(input))
               IN  (/\ input = DataUri(mt, d)
                    /\ \A k \in DOMAIN mt : mt[k] \notin {",", ";", ":"}
                    /\ \A k \in DOMAIN d : d[k] # ",")
                   => svcOut = Return([mimeType |-> mt, data |-> d])

\* a data URI with media type "a/" and a payload holding ";" and ":" is
\* decoded to that pair
C9_Witness ==
    /\ svcCall = [fn |-> "getMimeTypeAndData", args |-> <<DataUri(<<"a","/">>, <<";",":">>)>>]
    /\ svcOut = Return([mimeType |-> <<"a","/">>, data |-> <<";",":">>])

\* C10: getMimeTypeAndData throws for every input without the comma, or
\* without a colon in the part before the comma; it never returns a missing
\* media type or missing data; no request carries an image with either
\* missing.
C10_MalformedInputThrows ==
    /\ svcCall.fn = "getMimeTypeAndData" =>
          LET input == svcCall.args[1]
              commas == {k \in DOMAIN input : input[k] = ","}
              colonBeforeComma ==
                  \E k \in DOMAIN input :
                      input[k] = ":" /\ \A c \in commas : k < c
          IN  /\ (commas = {} \/ ~colonBeforeComma) => svcOut.kind = "throw"
              /\ svcOut.kind = "return" =>
                    (svcOut.val.mimeType # Undefined /\ svcOut.val.data # Undefined)
    /\ \A r \in DOMAIN svcReqs : \A k \in DOMAIN svcReqs[r].parts :
          LET part == svcReqs[r].parts[k]
          IN  part.hasInlineData => (part.mimeType # Undefined /\ part.data # Undefined)

\* C11: analyzeIdea adds the PREVIOUS PROMPT / EDIT SUGGESTION block, with
\* both values, to the trailing text part and the Enhancement Mode block to
\* the system instruction exactly when previousPrompt and editSuggestion are
\* both non-empty; the last part is always the text part carrying the goal;
\* each supplied image directly follows its label, the subject image first.
C11_EnhancementIffBoth ==
    svcCall.fn = "analyzeIdea" =>
        LET raw == svcCall.args[2]
            style == svcCall.args[3]
            goal == svcCall.args[4]
            prev == svcCall.args[5]
            sugg == svcCall.args[6]
            supplied(v) == v \notin {Null, Undefined, Empty}
            both == supplied(prev) /\ supplied(sugg)
            parts == svcReqs[1].parts
            last == parts[Len(parts)]
            styleAt == IF supplied(raw) THEN 3 ELSE 1
        IN  /\ Len(svcReqs) = 1
            /\ Len(parts) = 1 + (IF supplied(raw) THEN 2 ELSE 0)
                              + (IF supplied(style) THEN 2 ELSE 0)
            /\ ~last.hasInlineData
            /\ startsWith(last.text, GoalPrefix \o Quote \o goal \o Quote)
            /\ svcReqs[1].enhancement <=> both
            /\ IF both
               THEN includes(last.text,
                        PreviousPromptPrefix \o Quote \o prev \o Quote \o Newline
                        \o EditSuggestionPrefix \o Quote \o sugg \o Quote)
               ELSE /\ ~includes(last.text, PreviousPromptPrefix)
                    /\ ~includes(last.text, EditSuggestionPrefix)
            /\ supplied(raw) =>
                  (parts[1] = TextPart(RawImageLabel) /\ parts[2].hasInlineData)
            /\ supplied(style) =>
                  (/\ parts[styleAt] = TextPart(StyleImageLabel)
                   /\ parts[styleAt + 1].hasInlineData)

\* both images and a previous prompt are supplied but the edit suggestion is
\* empty: five parts, no enhancement
C11_Witness ==
    /\ svcCall.fn = "analyzeIdea"
    /\ svcCall.args[2] = PngA /\ svcCall.args[3] = JpgB
    /\ svcCall.args[5] = <<"p">> /\ svcCall.args[6] = Empty
    /\ Len(svcReqs) = 1 /\ Len(svcReqs[1].parts) = 5
    /\ ~svcReqs[1].enhancement

\* C12: the parts generateImage sends hold the prompt text part exactly once:
\* they are the image part followed by the text part when a subject image is
\* supplied, and the text part alone otherwise.
C12_ImageBeforeText ==
    svcCall.fn = "generateImage" =>
        LET prompt == svcCall.args[2]
            raw == svcCall.args[3]
            parts == svcReqs[1].parts
        IN  /\ Len(svcReqs) = 1
            /\ Cardinality({k \in DOMAIN parts : ~parts[k].hasInlineData}) = 1
            /\ IF raw \notin {Null, Undefined, Empty}
               THEN /\ Len(parts) = 2
                    /\ parts[1].hasInlineData
                    /\ parts[2] = TextPart(prompt)
               ELSE parts = <<TextPart(prompt)>>

\* a call with a PNG subject image sends that image and then the prompt
C12_Witness ==
    /\ svcCall.fn = "generateImage"
    /\ svcCall.args[3] = PngA
    /\ svcReqs = <<generateImageRequest(svcCall.args[1], <<"p">>, PngA)>>
    /\ svcReqs[1].parts = <<InlinePart(<<"i","m","a","g","e","/","p","n","g">>, <<"A">>),
                            TextPart(<<"p">>)>>

\* C13: the relay handler sends exactly one response, whose status the
\* request determines: 405 for a method other than POST; 400 when action,
\* model or contents is missing; 400 when action is neither analyzeIdea nor
\* generateImage; 500 when the upstream call fails or no image part is found;
\* 200 with the text or the image data otherwise.  A request answered with 405
\* or 400 causes no upstream call.
C13_RelayStatus ==
    svcCall.fn = "handler" =>
        LET req == svcCall.args[1]
            missing == \/ ~req.body.present
                       \/ ~Truthy(req.body.action)
                       \/ ~Truthy(req.body.model)
                       \/ ~Truthy(req.body.contents)
            rejected ==
                IF req.method # MethodPost THEN 405
                ELSE IF missing THEN 400
                ELSE IF req.body.action \notin {ActionAnalyzeIdea, ActionGenerateImage}
                     THEN 400
                ELSE 0
        IN  /\ rejected # 0 => svcReqs = <<>>
            /\ svcOut.kind = "return" =>
                  /\ Len(svcOut.val.responses) = 1
                  /\ rejected # 0 => svcOut.val.responses[1].status = rejected
                  /\ rejected = 0 =>
                        LET upstream == svcAnswers[1]
                            response == svcOut.val.responses[1]
                        IN  IF \/ ~upstream.ok
                               \/ /\ req.body.action = ActionGenerateImage
                                  /\ \A k \in DOMAIN upstream.parts :
                                        ~isImagePart(upstream.parts[k])
                            THEN response.status = 500
                            ELSE /\ response.status = 200
                                 /\ IF req.body.action = ActionAnalyzeIdea
                                    THEN response.text # Undefined
                                    ELSE response.imageData # Undefined

=============================================================================
